---- MODULE Spec2Model ----
(***************************************************************************)
(* Host-side register transport of the Signaloid C0-microSD+               *)
(* (src/c/lib/C0microSDPlusHostUtils.c).                                   *)
(*                                                                         *)
(* The device is a fixed-size seekable store.  open fails for a path that   *)
(* names nothing, lseek fails for a negative offset, and read and write    *)
(* are cut at the end of the store; no other system call fails.  The       *)
(* contents of the store are observed at the addresses of Tracked: every   *)
(* byte of the four registers, the bytes just outside the register block,  *)
(* and the first, last and one-past-last byte of the MMIO buffer.  A       *)
(* buffer handed to a raw transaction is observed at the indices that      *)
(* land on a tracked address.                                              *)
(* Each caller advances one system call at a time, so that transactions    *)
(* of different callers interleave as the operating system allows.         *)
(* 32-bit words are kept below 2^31, the range of the model checker's      *)
(* integers.                                                               *)
(***************************************************************************)
EXTENDS Integers, Sequences, FiniteSets, TLC

VARIABLES
    endian,     \* byte order of the host the library is built for
    devSize,    \* size in bytes of the store behind DevicePath
    mem,        \* contents of the store at the tracked addresses
    devicePath, \* the device path the callers were given
    proc,       \* per caller: position, call stack, parameters and locals
    lastWrite   \* the latest write(2) that moved bytes into the store

vars == <<endian, devSize, devicePath, mem, proc, lastWrite>>

(* ---- C0microSDPlusConstants.h ----------------------------------------- *)

kSignaloidSoCConstantsCommandOffset == 16777216             \* 0x01000000
kSignaloidSoCConstantsConfigOffset == 16777220              \* 0x01000004
kSignaloidSoCConstantsBootAddressOffset == 16777224         \* 0x01000008
kSignaloidSoCConstantsStatusOffset == 16777228              \* 0x0100000C
kSignaloidSoCConstantsMMIOBufferOffset == 16793600          \* 0x01004000
kSignaloidSoCConstantsMMIOBufferSizeBytes == 8192
kSignaloidSoCConstantsMainMemoryOffset == 17301504          \* 0x01080000

kSignaloidSoCStatusWaitingForCommand == 0
kSignaloidSoCStatusCalculating == 1
kSignaloidSoCStatusDone == 2
kSignaloidSoCStatusInvalidCommand == 3

\* sizeof(uint32_t), the transfer size of every register operation
SizeofUint32 == 4

\* EXIT_FAILURE of <stdlib.h>
EXIT_FAILURE == 1

(* ---- the callers, the device paths and the inputs ---------------------- *)

\* the processes that use the library on the same machine
NumCallers == 2
Callers == 1 .. NumCallers
SingleCaller == {1}

DevicePath == "/dev/c0"
AbsentPath == "/dev/absent"
Devices == {DevicePath, AbsentPath}

\* the store holds the whole register window and MMIO buffer, or it is a
\* short stand-in that ends inside the config register
FullSize == kSignaloidSoCConstantsMainMemoryOffset
ShortSize == kSignaloidSoCConstantsConfigOffset + 2
DevSizes == {FullSize, ShortSize}

RegisterBytes == kSignaloidSoCConstantsCommandOffset ..
                    (kSignaloidSoCConstantsStatusOffset + SizeofUint32 - 1)

MMIOEnd == kSignaloidSoCConstantsMMIOBufferOffset
              + kSignaloidSoCConstantsMMIOBufferSizeBytes

Tracked == RegisterBytes
           \cup {kSignaloidSoCConstantsCommandOffset - 1,
                 kSignaloidSoCConstantsStatusOffset + SizeofUint32,
                 kSignaloidSoCConstantsMMIOBufferOffset - 1,
                 kSignaloidSoCConstantsMMIOBufferOffset,
                 MMIOEnd - 1,
                 MMIOEnd}

\* register words the callers pass; the last one has reserved bits set
ReservedBitsWord == 2 ^ 30 + 2 ^ 4                          \* 0x40000010
Words == {ReservedBitsWord + 10}

StatusSeeds == {kSignaloidSoCStatusWaitingForCommand,
                kSignaloidSoCStatusCalculating,
                kSignaloidSoCStatusDone,
                kSignaloidSoCStatusInvalidCommand}

RawOffsets == {-1,
               kSignaloidSoCConstantsConfigOffset,
               kSignaloidSoCConstantsMMIOBufferOffset}
RawSizes == {SizeofUint32, kSignaloidSoCConstantsMMIOBufferSizeBytes}

\* the values of the four bool parameters of the unpacked operations
Flags == BOOLEAN \X BOOLEAN \X BOOLEAN \X BOOLEAN

\* content of a local variable that has not been assigned
Uninit == 0 - 1

(* ---- buffers and words -------------------------------------------------- *)

\* the indices of a buffer of `size` bytes at `offset` that are observed
BufIdx(offset, size) ==
    {a - offset : a \in {t \in Tracked : offset <= t /\ t < offset + size}}

Fill(offset, size, b) == [i \in BufIdx(offset, size) |-> b]
Ramp(offset, size) == [i \in BufIdx(offset, size) |-> (i + 1) % 128]

SourceBuffers(offset, size) == {Ramp(offset, size)}

\* the bytes of a uint32_t object in memory, in the host's byte order
WordBytes(w, e) ==
    [i \in 0 .. (SizeofUint32 - 1) |->
        IF e = "little" THEN (w \div (256 ^ i)) % 256
                        ELSE (w \div (256 ^ (SizeofUint32 - 1 - i))) % 256]

\* the value of a uint32_t object whose bytes are b
BytesWord(b, e) ==
    IF e = "little"
    THEN b[0] + 256 * b[1] + 65536 * b[2] + 16777216 * b[3]
    ELSE b[3] + 256 * b[2] + 65536 * b[1] + 16777216 * b[0]

\* the word the store holds at a register offset
MemWord(m, offset, e) ==
    BytesWord([i \in 0 .. (SizeofUint32 - 1) |-> m[offset + i]], e)

(* ---- the operating system ---------------------------------------------- *)

\* open(2): a descriptor for an existing path, -1 otherwise
open(path, fds) ==
    IF path = DevicePath
    THEN CHOOSE fd \in 3 .. (3 + Cardinality(fds)) :
            /\ fd \notin fds
            /\ \A g \in 3 .. (3 + Cardinality(fds)) : g \notin fds => fd <= g
    ELSE -1

\* lseek(2) with SEEK_SET: the new position, -1 for a negative offset
lseek(offset) == IF offset < 0 THEN -1 ELSE offset

\* read(2) on the store: the count is cut at the end of the store
read(pos, size, dsize) ==
    IF pos >= dsize THEN 0
    ELSE IF pos + size > dsize THEN dsize - pos ELSE size

\* write(2) on the store: cut at the end of the store, -1 when no byte fits
write(pos, size, dsize) ==
    IF pos >= dsize THEN -1
    ELSE IF pos + size > dsize THEN dsize - pos ELSE size

\* the buffer after read(2) moved n bytes from position pos into it
BufferAfterRead(buf, m, pos, n) ==
    [i \in DOMAIN buf |-> IF i < n THEN m[pos + i] ELSE buf[i]]

\* the store after write(2) moved n bytes of buf to position pos
MemAfterWrite(m, buf, pos, n) ==
    [a \in Tracked |-> IF pos <= a /\ a < pos + n THEN buf[a - pos] ELSE m[a]]

(* ---- callers ------------------------------------------------------------ *)

NoFlags == <<FALSE, FALSE, FALSE, FALSE>>
EmptyBuf == [i \in {} |-> 0]

\* a caller that is in no library call and holds no result of one
IdleProc ==
    [pc |-> "idle", fn |-> "", stack |-> <<>>, device |-> "", word |-> 0,
     flags |-> NoFlags, size |-> 0, offset |-> 0, buf |-> EmptyBuf,
     fd |-> -1, pos |-> 0, result |-> 0, ret |-> 0, trace |-> <<>>,
     perr |-> <<>>, fds |-> {}, exit |-> -1]

NoWrite ==
    [fn |-> "", offset |-> 0, size |-> 0, n |-> 0,
     buf |-> EmptyBuf, flags |-> NoFlags]

CanCall(p) == proc[p].pc \in {"idle", "done"}

\* caller p as it enters library function fn: results of the call before
\* are gone, descriptors that are still open stay open
Fresh(p, fn) == [IdleProc EXCEPT !.fn = fn, !.fds = proc[p].fds]

Top(pr) == pr.stack[Len(pr.stack)]
Pop(s) == SubSeq(s, 1, Len(s) - 1)

\* `return value` in the function on top of the stack of caller p: back in
\* the calling function, or back in the caller's own code with the result
Return(p, pr, value) ==
    proc' = [proc EXCEPT ![p] =
                IF Len(pr.stack) = 1
                THEN [pr EXCEPT !.pc = "done", !.stack = <<>>, !.ret = value,
                                !.fd = -1, !.pos = 0]
                ELSE [pr EXCEPT !.pc = "ret", !.stack = Pop(@),
                                !.ret = value]]

\* exit(EXIT_FAILURE): the process of caller p ends
Exit(p, pr) ==
    proc' = [proc EXCEPT ![p] = [pr EXCEPT !.pc = "exited",
                                           !.exit = EXIT_FAILURE]]

RawRead == "hostUtilsReadFromC0microSDPlus"
RawWrite == "hostUtilsWriteToC0microSDPlus"

\* a call of the raw read or write function: its frame, parameters, locals
EnterRaw(pr, fn, device, buf, size, offset) ==
    [pr EXCEPT !.pc = "open", !.stack = Append(@, fn), !.device = device,
               !.buf = buf, !.size = size, !.offset = offset,
               !.fd = -1, !.pos = 0, !.result = 0]

(* ---- hostUtilsReadFromC0microSDPlus ------------------------------------- *)

\* the caller's own code calls the raw read with a zeroed destination
ReadCall(p) ==
    /\ CanCall(p)
    /\ \E device \in {devicePath}, size \in RawSizes, offset \in RawOffsets :
          proc' = [proc EXCEPT ![p] =
                      EnterRaw(Fresh(p, RawRead), RawRead, device,
                               Fill(offset, size, 0), size, offset)]
    /\ UNCHANGED <<endian, devSize, devicePath, mem, lastWrite>>

\* ReadOpen without the check of fd: the function goes on to seek
ReadOpenUnchecked(p) ==
    LET pr == proc[p]
        fd == open(pr.device, pr.fds)
    IN  /\ pr.pc = "open"
        /\ Top(pr) = RawRead
        /\ proc' = [proc EXCEPT ![p] =
                        [pr EXCEPT !.pc = "seek", !.fd = fd,
                                   !.fds = IF fd = -1 THEN @ ELSE @ \cup {fd},
                                   !.pos = 0,
                                   !.trace = Append(@, "open")]]
        /\ UNCHANGED <<endian, devSize, devicePath, mem, lastWrite>>

\* fd = open(device, O_RDONLY | O_SYNC | O_DSYNC) and the check of fd
ReadOpen(p) ==
    LET pr == proc[p]
        fd == open(pr.device, pr.fds)
        tr == Append(pr.trace, "open")
    IN  /\ pr.pc = "open"
        /\ Top(pr) = RawRead
        /\ IF fd = -1
           THEN Return(p, [pr EXCEPT !.fd = fd, !.trace = tr,
                              !.perr = Append(@, "Error opening device")],
                       -1)
           ELSE proc' = [proc EXCEPT ![p] =
                            [pr EXCEPT !.pc = "seek", !.fd = fd,
                                       !.fds = @ \cup {fd}, !.pos = 0,
                                       !.trace = tr]]
        /\ UNCHANGED <<endian, devSize, devicePath, mem, lastWrite>>

\* seek_offset = lseek(fd, offset, SEEK_SET) and the check of seek_offset
ReadSeek(p) ==
    LET pr == proc[p]
        seek_offset == lseek(pr.offset)
        tr == Append(pr.trace, "lseek")
    IN  /\ pr.pc = "seek"
        /\ Top(pr) = RawRead
        /\ proc' = [proc EXCEPT ![p] =
              IF seek_offset = -1
              THEN [pr EXCEPT !.pc = "seekfail", !.trace = tr,
                      !.perr = Append(@, "Error seeking to target offset")]
              ELSE [pr EXCEPT !.pc = "xfer", !.pos = seek_offset,
                              !.trace = tr]]
        /\ UNCHANGED <<endian, devSize, devicePath, mem, lastWrite>>

\* ReadSeekFailed without close(fd): the descriptor stays open
ReadSeekFailedLeak(p) ==
    LET pr == proc[p]
    IN  /\ pr.pc = "seekfail"
        /\ Top(pr) = RawRead
        /\ Return(p, pr, -1)
        /\ UNCHANGED <<endian, devSize, devicePath, mem, lastWrite>>

\* close(fd); return -1; after a failed seek
ReadSeekFailed(p) ==
    LET pr == proc[p]
    IN  /\ pr.pc = "seekfail"
        /\ Top(pr) = RawRead
        /\ Return(p, [pr EXCEPT !.fds = @ \ {pr.fd},
                                !.trace = Append(@, "close")], -1)
        /\ UNCHANGED <<endian, devSize, devicePath, mem, lastWrite>>

\* result = read(fd, destBuffer, bufferSize) and the check of result
ReadTransfer(p) ==
    LET pr == proc[p]
        result == read(pr.pos, pr.size, devSize)
    IN  /\ pr.pc = "xfer"
        /\ Top(pr) = RawRead
        /\ proc' = [proc EXCEPT ![p] =
              [pr EXCEPT !.pc = "close", !.result = result,
                 !.buf = BufferAfterRead(@, mem, pr.pos, result),
                 !.pos = @ + result,
                 !.trace = Append(@, "read"),
                 !.perr = IF result # pr.size
                          THEN Append(@, "Error reading data from the device")
                          ELSE @]]
        /\ UNCHANGED <<endian, devSize, devicePath, mem, lastWrite>>

\* ReadResult of a function that returns 0 for success
ReadResultZero(pr) == IF pr.result = pr.size THEN 0 ELSE -1

\* the value the raw read returns after its transfer
ReadResult(pr) == pr.result

\* close(fd); return result;
ReadClose(p) ==
    LET pr == proc[p]
    IN  /\ pr.pc = "close"
        /\ Top(pr) = RawRead
        /\ Return(p, [pr EXCEPT !.fds = @ \ {pr.fd},
                                !.trace = Append(@, "close")],
                  ReadResult(pr))
        /\ UNCHANGED <<endian, devSize, devicePath, mem, lastWrite>>

hostUtilsReadFromC0microSDPlus(p) ==
    \/ ReadOpen(p)
    \/ ReadSeek(p)
    \/ ReadSeekFailed(p)
    \/ ReadTransfer(p)
    \/ ReadClose(p)

(* ---- hostUtilsWriteToC0microSDPlus -------------------------------------- *)

WriteCall(p) ==
    /\ CanCall(p)
    /\ \E device \in {devicePath}, size \in RawSizes, offset \in RawOffsets :
          \E buf \in SourceBuffers(offset, size) :
              proc' = [proc EXCEPT ![p] =
                          EnterRaw(Fresh(p, RawWrite), RawWrite, device,
                                   buf, size, offset)]
    /\ UNCHANGED <<endian, devSize, devicePath, mem, lastWrite>>

\* fd = open(device, O_WRONLY | O_SYNC | O_DSYNC) and the check of fd
WriteOpen(p) ==
    LET pr == proc[p]
        fd == open(pr.device, pr.fds)
        tr == Append(pr.trace, "open")
    IN  /\ pr.pc = "open"
        /\ Top(pr) = RawWrite
        /\ IF fd = -1
           THEN Return(p, [pr EXCEPT !.fd = fd, !.trace = tr,
                              !.perr = Append(@, "Error opening device")],
                       -1)
           ELSE proc' = [proc EXCEPT ![p] =
                            [pr EXCEPT !.pc = "seek", !.fd = fd,
                                       !.fds = @ \cup {fd}, !.pos = 0,
                                       !.trace = tr]]
        /\ UNCHANGED <<endian, devSize, devicePath, mem, lastWrite>>

\* seek_offset = lseek(fd, offset, SEEK_SET) and the check of seek_offset
WriteSeek(p) ==
    LET pr == proc[p]
        seek_offset == lseek(pr.offset)
        tr == Append(pr.trace, "lseek")
    IN  /\ pr.pc = "seek"
        /\ Top(pr) = RawWrite
        /\ proc' = [proc EXCEPT ![p] =
              IF seek_offset = -1
              THEN [pr EXCEPT !.pc = "seekfail", !.trace = tr,
                      !.perr = Append(@, "Error seeking to target offset")]
              ELSE [pr EXCEPT !.pc = "xfer", !.pos = seek_offset,
                              !.trace = tr]]
        /\ UNCHANGED <<endian, devSize, devicePath, mem, lastWrite>>

\* close(fd); return -1; after a failed seek
WriteSeekFailed(p) ==
    LET pr == proc[p]
    IN  /\ pr.pc = "seekfail"
        /\ Top(pr) = RawWrite
        /\ Return(p, [pr EXCEPT !.fds = @ \ {pr.fd},
                                !.trace = Append(@, "close")], -1)
        /\ UNCHANGED <<endian, devSize, devicePath, mem, lastWrite>>

\* result = write(fd, sourceBuffer, bufferSize) and the check of result
WriteTransfer(p) ==
    LET pr == proc[p]
        result == write(pr.pos, pr.size, devSize)
    IN  /\ pr.pc = "xfer"
        /\ Top(pr) = RawWrite
        /\ proc' = [proc EXCEPT ![p] =
              [pr EXCEPT !.pc = "close", !.result = result,
                 !.pos = IF result > 0 THEN @ + result ELSE @,
                 !.trace = Append(@, "write"),
                 !.perr = IF result # pr.size
                          THEN Append(@, "Error writing data to the device")
                          ELSE @]]
        /\ IF result > 0
           THEN /\ mem' = MemAfterWrite(mem, pr.buf, pr.pos, result)
                /\ lastWrite' = [fn |-> pr.fn,
                                 offset |-> pr.pos, size |-> pr.size,
                                 n |-> result, buf |-> pr.buf,
                                 flags |-> pr.flags]
           ELSE UNCHANGED <<mem, lastWrite>>
        /\ UNCHANGED <<endian, devSize, devicePath>>

\* the value the raw write returns after its transfer
WriteResult(pr) == pr.result

\* close(fd); return result;
WriteClose(p) ==
    LET pr == proc[p]
    IN  /\ pr.pc = "close"
        /\ Top(pr) = RawWrite
        /\ Return(p, [pr EXCEPT !.fds = @ \ {pr.fd},
                                !.trace = Append(@, "close")],
                  WriteResult(pr))
        /\ UNCHANGED <<endian, devSize, devicePath, mem, lastWrite>>

hostUtilsWriteToC0microSDPlus(p) ==
    \/ WriteOpen(p)
    \/ WriteSeek(p)
    \/ WriteSeekFailed(p)
    \/ WriteTransfer(p)
    \/ WriteClose(p)

(* ---- the typed register and buffer operations --------------------------- *)

ReadMMIOBufferFn == "hostUtilsReadSignaloidSoCMMIOBuffer"
WriteMMIOBufferFn == "hostUtilsWriteSignaloidSoCMMIOBuffer"
GetConfigFn == "hostUtilsGetSignaloidSoCConfigRegister"
SetConfigFn == "hostUtilsSetSignaloidSoCConfigRegister"
GetConfigUnpackedFn == "hostUtilsGetSignaloidSoCConfigRegisterUnpacked"
SetConfigUnpackedFn == "hostUtilsSetSignaloidSoCConfigRegisterUnpacked"
SetCommandFn == "hostUtilsSetSignaloidSoCCommandRegister"
GetStatusFn == "hostUtilsGetSignaloidSoCStatusRegister"
GetBootAddressFn == "hostUtilsGetSignaloidSoCBootAddressRegister"
SetBootAddressFn == "hostUtilsSetSignaloidSoCBootAddressRegister"

\* a uint32_t local variable before anything is stored in it
UninitWord == [i \in 0 .. (SizeofUint32 - 1) |-> Uninit]

\* caller p is back in function fn from the raw transaction fn issued
Returned(p, fn) ==
    /\ proc[p].pc = "ret"
    /\ Top(proc[p]) = fn

\* Failed of a function that looks for the error value only
FailedOnlyOnError(res, size) == res < 0

\* a typed function gives up unless the transaction moved `size` bytes
Failed(res, size) == res # size

(* hostUtilsReadSignaloidSoCMMIOBuffer *)

ReadMMIOBufferCall(p) ==
    /\ CanCall(p)
    /\ \E device \in {devicePath} :
          proc' = [proc EXCEPT ![p] =
              EnterRaw([Fresh(p, ReadMMIOBufferFn) EXCEPT
                           !.stack = <<ReadMMIOBufferFn>>],
                       RawRead, device,
                       Fill(kSignaloidSoCConstantsMMIOBufferOffset,
                            kSignaloidSoCConstantsMMIOBufferSizeBytes, 0),
                       kSignaloidSoCConstantsMMIOBufferSizeBytes,
                       kSignaloidSoCConstantsMMIOBufferOffset)]
    /\ UNCHANGED <<endian, devSize, devicePath, mem, lastWrite>>

ReadMMIOBufferReturn(p) ==
    LET pr == proc[p]
    IN  /\ Returned(p, ReadMMIOBufferFn)
        /\ IF Failed(pr.ret, kSignaloidSoCConstantsMMIOBufferSizeBytes)
           THEN Exit(p, pr)
           ELSE Return(p, pr, 0)
        /\ UNCHANGED <<endian, devSize, devicePath, mem, lastWrite>>

hostUtilsReadSignaloidSoCMMIOBuffer(p) ==
    ReadMMIOBufferCall(p) \/ ReadMMIOBufferReturn(p)

(* hostUtilsWriteSignaloidSoCMMIOBuffer *)

WriteMMIOBufferCall(p) ==
    /\ CanCall(p)
    /\ \E device \in {devicePath} :
          \E buf \in SourceBuffers(kSignaloidSoCConstantsMMIOBufferOffset,
                                   kSignaloidSoCConstantsMMIOBufferSizeBytes) :
              proc' = [proc EXCEPT ![p] =
                  EnterRaw([Fresh(p, WriteMMIOBufferFn) EXCEPT
                               !.stack = <<WriteMMIOBufferFn>>],
                           RawWrite, device, buf,
                           kSignaloidSoCConstantsMMIOBufferSizeBytes,
                           kSignaloidSoCConstantsMMIOBufferOffset)]
    /\ UNCHANGED <<endian, devSize, devicePath, mem, lastWrite>>

WriteMMIOBufferReturn(p) ==
    LET pr == proc[p]
    IN  /\ Returned(p, WriteMMIOBufferFn)
        /\ IF Failed(pr.ret, kSignaloidSoCConstantsMMIOBufferSizeBytes)
           THEN Exit(p, pr)
           ELSE Return(p, pr, 0)
        /\ UNCHANGED <<endian, devSize, devicePath, mem, lastWrite>>

hostUtilsWriteSignaloidSoCMMIOBuffer(p) ==
    WriteMMIOBufferCall(p) \/ WriteMMIOBufferReturn(p)

(* hostUtilsGetSignaloidSoCConfigRegister *)

\* the function is entered from pr, the caller's own code or the unpacked get
EnterGetConfigRegister(pr, device) ==
    EnterRaw([pr EXCEPT !.stack = Append(@, GetConfigFn)],
             RawRead, device, UninitWord, SizeofUint32,
             kSignaloidSoCConstantsConfigOffset)

GetConfigRegisterCall(p) ==
    /\ CanCall(p)
    /\ \E device \in {devicePath} :
          proc' = [proc EXCEPT ![p] =
                      EnterGetConfigRegister(Fresh(p, GetConfigFn), device)]
    /\ UNCHANGED <<endian, devSize, devicePath, mem, lastWrite>>

GetConfigRegisterReturn(p) ==
    LET pr == proc[p]
    IN  /\ Returned(p, GetConfigFn)
        /\ IF Failed(pr.ret, SizeofUint32)
           THEN Exit(p, pr)
           ELSE Return(p, [pr EXCEPT !.word = BytesWord(pr.buf, endian)],
                       BytesWord(pr.buf, endian))
        /\ UNCHANGED <<endian, devSize, devicePath, mem, lastWrite>>

hostUtilsGetSignaloidSoCConfigRegister(p) ==
    GetConfigRegisterCall(p) \/ GetConfigRegisterReturn(p)

(* hostUtilsSetSignaloidSoCConfigRegister *)

\* the function is entered from pr, the caller's own code or the unpacked set
EnterSetConfigRegister(pr, device, config) ==
    EnterRaw([pr EXCEPT !.stack = Append(@, SetConfigFn), !.word = config],
             RawWrite, device, WordBytes(config, endian), SizeofUint32,
             kSignaloidSoCConstantsConfigOffset)

SetConfigRegisterCall(p) ==
    /\ CanCall(p)
    /\ \E device \in {devicePath}, config \in Words :
          proc' = [proc EXCEPT ![p] =
              EnterSetConfigRegister(Fresh(p, SetConfigFn), device, config)]
    /\ UNCHANGED <<endian, devSize, devicePath, mem, lastWrite>>

SetConfigRegisterReturn(p) ==
    LET pr == proc[p]
    IN  /\ Returned(p, SetConfigFn)
        /\ IF Failed(pr.ret, SizeofUint32)
           THEN Exit(p, pr)
           ELSE Return(p, pr, 0)
        /\ UNCHANGED <<endian, devSize, devicePath, mem, lastWrite>>

hostUtilsSetSignaloidSoCConfigRegister(p) ==
    SetConfigRegisterCall(p) \/ SetConfigRegisterReturn(p)

(* hostUtilsGetSignaloidSoCConfigRegisterUnpacked *)

Bit(reg_val, k) == (reg_val \div (2 ^ k)) % 2

\* Unpack with the shifts of sw_led_enable and sw_led exchanged
UnpackSwapped(reg_val) ==
    <<Bit(reg_val, 0) = 1, Bit(reg_val, 1) = 1,
      Bit(reg_val, 3) = 1, Bit(reg_val, 2) = 1>>

\* <<*rstn, *unlock_bitstream_section, *sw_led_enable, *sw_led>>
Unpack(reg_val) ==
    <<Bit(reg_val, 0) = 1, Bit(reg_val, 1) = 1,
      Bit(reg_val, 2) = 1, Bit(reg_val, 3) = 1>>

GetConfigRegisterUnpackedCall(p) ==
    /\ CanCall(p)
    /\ \E device \in {devicePath} :
          proc' = [proc EXCEPT ![p] =
              EnterGetConfigRegister(
                  [Fresh(p, GetConfigUnpackedFn) EXCEPT
                      !.stack = <<GetConfigUnpackedFn>>],
                  device)]
    /\ UNCHANGED <<endian, devSize, devicePath, mem, lastWrite>>

GetConfigRegisterUnpackedReturn(p) ==
    LET pr == proc[p]
    IN  /\ Returned(p, GetConfigUnpackedFn)
        /\ Return(p, [pr EXCEPT !.flags = Unpack(pr.ret)], 0)
        /\ UNCHANGED <<endian, devSize, devicePath, mem, lastWrite>>

hostUtilsGetSignaloidSoCConfigRegisterUnpacked(p) ==
    GetConfigRegisterUnpackedCall(p) \/ GetConfigRegisterUnpackedReturn(p)

(* hostUtilsSetSignaloidSoCConfigRegisterUnpacked *)

\* (uint32_t)b & 0x1
BoolBit(b) == IF b THEN 1 ELSE 0

\* Pack with sw_led shifted by 4 instead of 3
PackLedAtBit4(rstn, unlock_bitstream_section, sw_led_enable, sw_led) ==
    BoolBit(rstn) * 1 + BoolBit(unlock_bitstream_section) * 2
        + BoolBit(sw_led_enable) * 4 + BoolBit(sw_led) * 16

\* reg_val after the four flags are OR-ed into 0
Pack(rstn, unlock_bitstream_section, sw_led_enable, sw_led) ==
    BoolBit(rstn) * 1 + BoolBit(unlock_bitstream_section) * 2
        + BoolBit(sw_led_enable) * 4 + BoolBit(sw_led) * 8

\* SetConfigRegisterUnpackedWith of a function that ORs the flags into the
\* word the register holds instead of into 0
SetConfigRegisterUnpackedMerging(p, device, flags) ==
    LET held == Unpack(MemWord(mem, kSignaloidSoCConstantsConfigOffset,
                               endian))
    IN  proc' = [proc EXCEPT ![p] =
            EnterSetConfigRegister(
                [Fresh(p, SetConfigUnpackedFn) EXCEPT
                    !.stack = <<SetConfigUnpackedFn>>, !.flags = flags],
                device,
                Pack(flags[1] \/ held[1], flags[2] \/ held[2],
                     flags[3] \/ held[3], flags[4] \/ held[4]))]

\* the caller's own code calls the function with `flags` on `device`
SetConfigRegisterUnpackedWith(p, device, flags) ==
    proc' = [proc EXCEPT ![p] =
        EnterSetConfigRegister(
            [Fresh(p, SetConfigUnpackedFn) EXCEPT
                !.stack = <<SetConfigUnpackedFn>>, !.flags = flags],
            device,
            Pack(flags[1], flags[2], flags[3], flags[4]))]

SetConfigRegisterUnpackedCall(p) ==
    /\ CanCall(p)
    /\ \E device \in {devicePath}, flags \in Flags :
          SetConfigRegisterUnpackedWith(p, device, flags)
    /\ UNCHANGED <<endian, devSize, devicePath, mem, lastWrite>>

SetConfigRegisterUnpackedReturn(p) ==
    LET pr == proc[p]
    IN  /\ Returned(p, SetConfigUnpackedFn)
        /\ Return(p, pr, 0)
        /\ UNCHANGED <<endian, devSize, devicePath, mem, lastWrite>>

hostUtilsSetSignaloidSoCConfigRegisterUnpacked(p) ==
    SetConfigRegisterUnpackedCall(p) \/ SetConfigRegisterUnpackedReturn(p)

(* hostUtilsSetSignaloidSoCCommandRegister *)

SetCommandRegisterCall(p) ==
    /\ CanCall(p)
    /\ \E device \in {devicePath}, command \in Words :
          proc' = [proc EXCEPT ![p] =
              EnterRaw([Fresh(p, SetCommandFn) EXCEPT
                           !.stack = <<SetCommandFn>>, !.word = command],
                       RawWrite, device, WordBytes(command, endian),
                       SizeofUint32, kSignaloidSoCConstantsCommandOffset)]
    /\ UNCHANGED <<endian, devSize, devicePath, mem, lastWrite>>

SetCommandRegisterReturn(p) ==
    LET pr == proc[p]
    IN  /\ Returned(p, SetCommandFn)
        /\ IF Failed(pr.ret, SizeofUint32)
           THEN Exit(p, pr)
           ELSE Return(p, pr, 0)
        /\ UNCHANGED <<endian, devSize, devicePath, mem, lastWrite>>

hostUtilsSetSignaloidSoCCommandRegister(p) ==
    SetCommandRegisterCall(p) \/ SetCommandRegisterReturn(p)

(* hostUtilsGetSignaloidSoCStatusRegister *)

\* GetStatusRegisterCall with the offset of the boot-address register
GetStatusRegisterCallAtBootAddress(p) ==
    /\ CanCall(p)
    /\ \E device \in {devicePath} :
          proc' = [proc EXCEPT ![p] =
              EnterRaw([Fresh(p, GetStatusFn) EXCEPT
                           !.stack = <<GetStatusFn>>],
                       RawRead, device, UninitWord, SizeofUint32,
                       kSignaloidSoCConstantsBootAddressOffset)]
    /\ UNCHANGED <<endian, devSize, devicePath, mem, lastWrite>>

GetStatusRegisterCall(p) ==
    /\ CanCall(p)
    /\ \E device \in {devicePath} :
          proc' = [proc EXCEPT ![p] =
              EnterRaw([Fresh(p, GetStatusFn) EXCEPT
                           !.stack = <<GetStatusFn>>],
                       RawRead, device, UninitWord, SizeofUint32,
                       kSignaloidSoCConstantsStatusOffset)]
    /\ UNCHANGED <<endian, devSize, devicePath, mem, lastWrite>>

GetStatusRegisterReturn(p) ==
    LET pr == proc[p]
    IN  /\ Returned(p, GetStatusFn)
        /\ IF Failed(pr.ret, SizeofUint32)
           THEN Exit(p, pr)
           ELSE Return(p, [pr EXCEPT !.word = BytesWord(pr.buf, endian)],
                       BytesWord(pr.buf, endian))
        /\ UNCHANGED <<endian, devSize, devicePath, mem, lastWrite>>

hostUtilsGetSignaloidSoCStatusRegister(p) ==
    GetStatusRegisterCall(p) \/ GetStatusRegisterReturn(p)

(* hostUtilsGetSignaloidSoCBootAddressRegister *)

GetBootAddressRegisterCall(p) ==
    /\ CanCall(p)
    /\ \E device \in {devicePath} :
          proc' = [proc EXCEPT ![p] =
              EnterRaw([Fresh(p, GetBootAddressFn) EXCEPT
                           !.stack = <<GetBootAddressFn>>],
                       RawRead, device, UninitWord, SizeofUint32,
                       kSignaloidSoCConstantsBootAddressOffset)]
    /\ UNCHANGED <<endian, devSize, devicePath, mem, lastWrite>>

GetBootAddressRegisterReturn(p) ==
    LET pr == proc[p]
    IN  /\ Returned(p, GetBootAddressFn)
        /\ IF Failed(pr.ret, SizeofUint32)
           THEN Exit(p, pr)
           ELSE Return(p, [pr EXCEPT !.word = BytesWord(pr.buf, endian)],
                       BytesWord(pr.buf, endian))
        /\ UNCHANGED <<endian, devSize, devicePath, mem, lastWrite>>

hostUtilsGetSignaloidSoCBootAddressRegister(p) ==
    GetBootAddressRegisterCall(p) \/ GetBootAddressRegisterReturn(p)

(* hostUtilsSetSignaloidSoCBootAddressRegister *)

\* SetBootAddressRegisterCall with the offset of the status register
SetBootAddressRegisterCallAtStatus(p) ==
    /\ CanCall(p)
    /\ \E device \in {devicePath}, bootAddress \in Words :
          proc' = [proc EXCEPT ![p] =
              EnterRaw([Fresh(p, SetBootAddressFn) EXCEPT
                           !.stack = <<SetBootAddressFn>>,
                           !.word = bootAddress],
                       RawWrite, device, WordBytes(bootAddress, endian),
                       SizeofUint32,
                       kSignaloidSoCConstantsStatusOffset)]
    /\ UNCHANGED <<endian, devSize, devicePath, mem, lastWrite>>

SetBootAddressRegisterCall(p) ==
    /\ CanCall(p)
    /\ \E device \in {devicePath}, bootAddress \in Words :
          proc' = [proc EXCEPT ![p] =
              EnterRaw([Fresh(p, SetBootAddressFn) EXCEPT
                           !.stack = <<SetBootAddressFn>>,
                           !.word = bootAddress],
                       RawWrite, device, WordBytes(bootAddress, endian),
                       SizeofUint32,
                       kSignaloidSoCConstantsBootAddressOffset)]
    /\ UNCHANGED <<endian, devSize, devicePath, mem, lastWrite>>

SetBootAddressRegisterReturn(p) ==
    LET pr == proc[p]
    IN  /\ Returned(p, SetBootAddressFn)
        /\ IF Failed(pr.ret, SizeofUint32)
           THEN Exit(p, pr)
           ELSE Return(p, pr, 0)
        /\ UNCHANGED <<endian, devSize, devicePath, mem, lastWrite>>

hostUtilsSetSignaloidSoCBootAddressRegister(p) ==
    SetBootAddressRegisterCall(p) \/ SetBootAddressRegisterReturn(p)

(* ---- specification ------------------------------------------------------ *)

InitialConfig == ReservedBitsWord

\* the store as the callers find it: zero but for the config and status words
InitMem(status, e) ==
    [a \in Tracked |->
        IF a \in kSignaloidSoCConstantsConfigOffset ..
                    (kSignaloidSoCConstantsConfigOffset + SizeofUint32 - 1)
        THEN WordBytes(InitialConfig, e)
                [a - kSignaloidSoCConstantsConfigOffset]
        ELSE IF a \in kSignaloidSoCConstantsStatusOffset ..
                    (kSignaloidSoCConstantsStatusOffset + SizeofUint32 - 1)
        THEN WordBytes(status, e)[a - kSignaloidSoCConstantsStatusOffset]
        ELSE 0]

Init ==
    /\ endian \in {"little", "big"}
    /\ devSize \in DevSizes
    /\ devicePath \in Devices
    /\ \E status \in StatusSeeds :
          /\ devSize = ShortSize => status = kSignaloidSoCStatusWaitingForCommand
          /\ mem = InitMem(status, endian)
    /\ proc = [p \in Callers |-> IdleProc]
    /\ lastWrite = NoWrite

Next ==
    \E p \in SingleCaller :
        \/ ReadCall(p)
        \/ hostUtilsReadFromC0microSDPlus(p)
        \/ WriteCall(p)
        \/ hostUtilsWriteToC0microSDPlus(p)
        \/ hostUtilsReadSignaloidSoCMMIOBuffer(p)
        \/ hostUtilsWriteSignaloidSoCMMIOBuffer(p)
        \/ hostUtilsGetSignaloidSoCConfigRegister(p)
        \/ hostUtilsSetSignaloidSoCConfigRegister(p)
        \/ hostUtilsGetSignaloidSoCConfigRegisterUnpacked(p)
        \/ hostUtilsSetSignaloidSoCConfigRegisterUnpacked(p)
        \/ hostUtilsSetSignaloidSoCCommandRegister(p)
        \/ hostUtilsGetSignaloidSoCStatusRegister(p)
        \/ hostUtilsGetSignaloidSoCBootAddressRegister(p)
        \/ hostUtilsSetSignaloidSoCBootAddressRegister(p)

Spec == Init /\ [][Next]_vars

(* ---- several callers on one device -------------------------------------- *)

\* flags with flag k changed
Toggle(flags, k) == [flags EXCEPT ![k] = ~@]

\* a caller reads the four flags ...
ReadModifyWriteGet(p) ==
    /\ proc[p].pc = "idle"
    /\ GetConfigRegisterUnpackedCall(p)

\* ... changes one of them and writes the four flags back
ReadModifyWriteSet(p) ==
    /\ proc[p].pc = "done"
    /\ proc[p].fn = GetConfigUnpackedFn
    /\ \E k \in 1 .. 4 :
          SetConfigRegisterUnpackedWith(p, devicePath,
                                        Toggle(proc[p].flags, k))
    /\ UNCHANGED <<endian, devSize, devicePath, mem, lastWrite>>

InitConcurrent ==
    /\ endian \in {"little", "big"}
    /\ devSize = FullSize
    /\ devicePath = DevicePath
    /\ mem = InitMem(kSignaloidSoCStatusWaitingForCommand, endian)
    /\ proc = [p \in Callers |-> IdleProc]
    /\ lastWrite = NoWrite

NextConcurrent ==
    \E p \in Callers :
        \/ ReadModifyWriteGet(p)
        \/ ReadModifyWriteSet(p)
        \/ ReadOpen(p)
        \/ ReadSeek(p)
        \/ ReadTransfer(p)
        \/ ReadClose(p)
        \/ WriteOpen(p)
        \/ WriteSeek(p)
        \/ WriteTransfer(p)
        \/ WriteClose(p)
        \/ GetConfigRegisterReturn(p)
        \/ GetConfigRegisterUnpackedReturn(p)
        \/ SetConfigRegisterReturn(p)
        \/ SetConfigRegisterUnpackedReturn(p)

SpecConcurrent == InitConcurrent /\ [][NextConcurrent]_vars

(* ---- properties ---------------------------------------------------------- *)

RawFns == {RawRead, RawWrite}

TypedFns ==
    {ReadMMIOBufferFn, WriteMMIOBufferFn, GetConfigFn, SetConfigFn,
     GetConfigUnpackedFn, SetConfigUnpackedFn, SetCommandFn, GetStatusFn,
     GetBootAddressFn, SetBootAddressFn}

\* caller p is back in its own code from a call of fn
Done(p, fn) == proc[p].pc = "done" /\ proc[p].fn = fn

\* the system calls of the call caller p is in, or is back from
Transferred(p) ==
    \E i \in 1 .. Len(proc[p].trace) : proc[p].trace[i] \in {"read", "write"}

\* C1: a raw read or write whose transfer moved fewer bytes than bufferSize
\* returns -1, never a non-negative value.
C1_ShortTransferReturnsError ==
    \A p \in Callers :
        (/\ proc[p].pc = "done"
         /\ proc[p].fn \in RawFns
         /\ Transferred(p)
         /\ proc[p].result < proc[p].size)
        => proc[p].ret = -1

\* C2: a raw read or write on a path that cannot be opened returns -1 to
\* its caller, the process goes on, no seek and no transfer is attempted,
\* no device content changes and no handle stays open.
C2_OpenFailure ==
    devicePath = AbsentPath =>
        /\ \E status \in StatusSeeds : mem = InitMem(status, endian)
        /\ lastWrite = NoWrite
        /\ \A p \in Callers :
              /\ proc[p].fds = {}
              /\ \A i \in 1 .. Len(proc[p].trace) : proc[p].trace[i] = "open"
              /\ Len(proc[p].trace) <= 1
              /\ proc[p].fn \in RawFns => proc[p].pc # "exited"
              /\ (proc[p].pc = "done" /\ proc[p].fn \in RawFns) =>
                    /\ proc[p].ret = -1
                    /\ proc[p].trace = <<"open">>
                    /\ proc[p].exit = -1

C2_Witness ==
    /\ devicePath = AbsentPath
    /\ Done(1, RawWrite)
    /\ proc[1].ret = -1
    /\ proc[1].perr = <<"Error opening device">>

\* the size a typed operation asks of its raw transaction, as the claim
\* gives it: 8192 bytes for the MMIO buffer, 4 bytes for a register
ClaimSize(fn) ==
    IF fn \in {ReadMMIOBufferFn, WriteMMIOBufferFn} THEN 8192 ELSE 4

\* the typed functions that look at the result of the raw transaction
CheckingFns ==
    TypedFns \ {GetConfigUnpackedFn, SetConfigUnpackedFn}

C3_ReturnsOnlyOnFullTransfer ==
    \A p \in Callers :
        /\ (proc[p].pc = "done" /\ proc[p].fn \in TypedFns) =>
              /\ proc[p].result = ClaimSize(proc[p].fn)
              /\ proc[p].exit = -1
        /\ proc[p].pc = "exited" =>
              /\ proc[p].fn \in TypedFns
              /\ proc[p].ret # ClaimSize(proc[p].fn)
              /\ proc[p].exit = 1

C3_TerminatesOnAnythingElse ==
    \A p \in Callers :
        /\ (/\ proc[p].pc = "ret"
            /\ Top(proc[p]) \in CheckingFns
            /\ proc[p].ret # ClaimSize(proc[p].fn)
            /\ proc'[p] # proc[p])
           => (proc'[p].pc = "exited" /\ proc'[p].exit = 1)
        /\ proc[p].pc = "exited" => proc'[p] = proc[p]

\* C3: a typed operation (the unpacked ones included) whose raw
\* transaction returns anything but the full size, -1 and short counts
\* alike, ends the process with a failure status and never returns; it
\* returns only when the full size was moved.
C3_FatalOnShortTransaction ==
    /\ []C3_ReturnsOnlyOnFullTransfer
    /\ [][C3_TerminatesOnAnythingElse]_vars

C3_Witness ==
    /\ proc[1].pc = "exited"
    /\ proc[1].fn = GetConfigUnpackedFn
    /\ proc[1].ret = 2
    /\ proc[1].exit = 1

\* C4: after a raw write of `size` bytes at `offset` that moved them all,
\* and with no write to the store since, a raw read of the same size at
\* the same offset returns size and fills the buffer with those bytes.
C4_WriteReadRoundTrip ==
    \A p \in Callers :
        (/\ Done(p, RawRead)
         /\ lastWrite.fn = RawWrite
         /\ lastWrite.n = lastWrite.size
         /\ lastWrite.offset = proc[p].offset
         /\ lastWrite.size = proc[p].size)
        => (/\ proc[p].ret = proc[p].size
            /\ proc[p].buf = lastWrite.buf)

C4_Witness ==
    /\ Done(1, RawRead)
    /\ lastWrite.fn = RawWrite
    /\ lastWrite.n = 8192
    /\ lastWrite.offset = proc[1].offset
    /\ lastWrite.size = proc[1].size
    /\ proc[1].ret = 8192
    /\ proc[1].buf = lastWrite.buf
    /\ \E i \in DOMAIN proc[1].buf : proc[1].buf[i] # 0

\* the config word the claim gives for four flags
FlagWord(flags) ==
    (IF flags[1] THEN 1 ELSE 0) + (IF flags[2] THEN 2 ELSE 0)
        + (IF flags[3] THEN 4 ELSE 0) + (IF flags[4] THEN 8 ELSE 0)

ConfigWord == MemWord(mem, 16777220, endian)

\* the latest write to the store is the whole-word write of a
\* set-config-register-unpacked call
UnpackedSetIsLatestWrite ==
    /\ lastWrite.fn = SetConfigUnpackedFn
    /\ lastWrite.n = 4

\* C5: for each of the 16 flag combinations, set-config-register-unpacked
\* followed by get-config-register-unpacked returns the four flags in
\* their positions, and the config word in between, as stored and as
\* get-config-register returns it, is rstn*1 + unlock*2 + enable*4 + led*8.
C5_ConfigFlagsRoundTrip ==
    \A p \in Callers :
        /\ Done(p, SetConfigUnpackedFn) =>
              /\ UnpackedSetIsLatestWrite
              /\ lastWrite.flags = proc[p].flags
              /\ ConfigWord = FlagWord(proc[p].flags)
        /\ (Done(p, GetConfigFn) /\ UnpackedSetIsLatestWrite) =>
              proc[p].ret = FlagWord(lastWrite.flags)
        /\ (Done(p, GetConfigUnpackedFn) /\ UnpackedSetIsLatestWrite) =>
              proc[p].flags = lastWrite.flags

C5_Witness ==
    /\ Done(1, GetConfigUnpackedFn)
    /\ UnpackedSetIsLatestWrite
    /\ lastWrite.flags = <<TRUE, FALSE, TRUE, FALSE>>
    /\ proc[1].flags = <<TRUE, FALSE, TRUE, FALSE>>
    /\ ConfigWord = 5

\* a step in which set-config-register-unpacked writes the whole word
UnpackedSetWrites ==
    /\ mem' # mem
    /\ lastWrite'.fn = SetConfigUnpackedFn
    /\ lastWrite'.n = 4

\* C6: the word set-config-register-unpacked writes has bits 4 to 31 zero
\* whatever the flags and whatever the register held: after a successful
\* call the register is below 16, reserved bits that were set are cleared.
C6_ReservedBitsCleared ==
    /\ [](UnpackedSetIsLatestWrite => ConfigWord < 16)
    /\ [][UnpackedSetWrites => MemWord(mem', 16777220, endian) < 16]_vars

C6_Witness ==
    /\ Done(1, SetConfigUnpackedFn)
    /\ proc[1].flags = <<TRUE, TRUE, TRUE, TRUE>>
    /\ ConfigWord = 15
    /\ InitialConfig >= 16

\* the name the claim gives a status value
ClaimStatus(n) ==
    CASE n = 0 -> "waiting-for-command"
      [] n = 1 -> "calculating"
      [] n = 2 -> "done"
      [] n = 3 -> "invalid-command"
      [] OTHER -> "unspecified"

\* the enumerator of SignaloidSoCStatus with value n
SignaloidSoCStatus(n) ==
    CASE n = kSignaloidSoCStatusWaitingForCommand -> "waiting-for-command"
      [] n = kSignaloidSoCStatusCalculating -> "calculating"
      [] n = kSignaloidSoCStatusDone -> "done"
      [] n = kSignaloidSoCStatusInvalidCommand -> "invalid-command"
      [] OTHER -> "unspecified"

\* C7: get-status-register returns the status whose value is the word
\* stored at 0x0100000C (0, 1, 2, 3: waiting-for-command, calculating,
\* done, invalid-command), and reads that word only.
C7_StatusIsStoredWord ==
    \A p \in Callers :
        /\ Done(p, GetStatusFn) =>
              /\ proc[p].ret = MemWord(mem, 16777228, endian)
              /\ SignaloidSoCStatus(proc[p].ret)
                    = ClaimStatus(MemWord(mem, 16777228, endian))
              /\ DOMAIN proc[p].buf = 0 .. 3
        /\ proc[p].fn = GetStatusFn =>
              /\ proc[p].offset = 16777228
              /\ proc[p].size = 4

C7_Witness ==
    /\ Done(1, GetStatusFn)
    /\ proc[1].ret = 2
    /\ SignaloidSoCStatus(proc[1].ret) = "done"
    /\ MemWord(mem, 16777216, endian) # 2
    /\ MemWord(mem, 16777220, endian) # 2
    /\ MemWord(mem, 16777224, endian) # 2

\* the system calls a raw transaction may have issued so far
TraceOrders ==
    {<<>>, <<"open">>, <<"open", "lseek">>, <<"open", "lseek", "close">>,
     <<"open", "lseek", "read">>, <<"open", "lseek", "write">>,
     <<"open", "lseek", "read", "close">>,
     <<"open", "lseek", "write", "close">>}

\* the system calls of a raw transaction that is over
FinishedTraces ==
    {<<"open">>, <<"open", "lseek", "close">>,
     <<"open", "lseek", "read", "close">>,
     <<"open", "lseek", "write", "close">>}

\* C8: a raw call is one transaction without retry: at most one open, then
\* one seek, then one transfer; a failed step ends it; every handle it
\* opened is closed before it returns, so no handle is open between calls
\* and a caller never has two.
C8_OneTransactionPerCall ==
    \A p \in Callers :
        /\ proc[p].trace \in TraceOrders
        /\ Cardinality(proc[p].fds) <= 1
        /\ proc[p].pc \in {"idle", "done", "exited", "ret"} =>
              proc[p].fds = {}
        /\ proc[p].pc \in {"done", "exited", "ret"} =>
              /\ proc[p].trace \in FinishedTraces
              /\ proc[p].trace = <<"open">> => proc[p].fd = -1
              /\ Len(proc[p].trace) < 4 =>
                    (proc[p].ret = -1 \/ proc[p].pc = "exited")
        /\ proc[p].fds # {} <=>
              proc[p].pc \in {"seek", "seekfail", "xfer", "close"}

C8_Witness ==
    /\ Done(1, RawRead)
    /\ proc[1].trace = <<"open", "lseek", "close">>
    /\ proc[1].ret = -1
    /\ proc[1].fds = {}

\* the offset and size of each typed operation, as the claim gives them
ClaimOffset(fn) ==
    CASE fn = SetCommandFn -> 16777216
      [] fn \in {GetConfigFn, SetConfigFn,
                 GetConfigUnpackedFn, SetConfigUnpackedFn} -> 16777220
      [] fn \in {GetBootAddressFn, SetBootAddressFn} -> 16777224
      [] fn = GetStatusFn -> 16777228
      [] fn \in {ReadMMIOBufferFn, WriteMMIOBufferFn} -> 16793600

ClaimRange(fn) == ClaimOffset(fn) .. (ClaimOffset(fn) + ClaimSize(fn) - 1)

TypedReads ==
    {GetConfigFn, GetStatusFn, GetBootAddressFn, ReadMMIOBufferFn,
     GetConfigUnpackedFn}

TypedWrites == TypedFns \ TypedReads

Opens(trace) == Cardinality({i \in 1 .. Len(trace) : trace[i] = "open"})

C9_OneTransactionAtFixedPlace ==
    \A p \in Callers :
        proc[p].fn \in TypedFns =>
            /\ proc[p].offset = ClaimOffset(proc[p].fn)
            /\ proc[p].size = ClaimSize(proc[p].fn)
            /\ Opens(proc[p].trace) <= 1
            /\ proc[p].pc \in {"done", "exited"} => Opens(proc[p].trace) = 1
            /\ proc[p].pc = "done" =>
                  proc[p].trace \in {<<"open", "lseek", "read", "close">>,
                                     <<"open", "lseek", "write", "close">>}
            /\ \A fn \in TypedFns :
                  ClaimRange(fn) \cap ClaimRange(proc[p].fn) # {} =>
                      ClaimOffset(fn) = ClaimOffset(proc[p].fn)

C9_Frame ==
    \A p \in Callers :
        proc'[p] # proc[p] =>
            /\ proc[p].fn \in TypedReads => mem' = mem
            /\ proc[p].fn \in TypedWrites =>
                  \A a \in Tracked :
                      mem'[a] # mem[a] => a \in ClaimRange(proc[p].fn)

\* C9: a typed operation issues exactly one raw transaction at its own
\* fixed offset and size; a typed write changes bytes of its own target
\* only, the five targets being disjoint; a typed read changes nothing.
C9_TypedOperationsFrame ==
    /\ []C9_OneTransactionAtFixedPlace
    /\ [][C9_Frame]_vars

C9_Witness ==
    /\ Done(1, SetBootAddressFn)
    /\ MemWord(mem, 16777224, endian) = proc[1].word
    /\ proc[1].word # 0
    /\ MemWord(mem, 16777216, endian) = 0
    /\ ConfigWord = InitialConfig
    /\ mem[16777232] = 0
    /\ mem[16793600] = 0

\* every caller's set-config-register-unpacked call has returned
AllSetsReturned == \A p \in Callers : Done(p, SetConfigUnpackedFn)

\* the flags every caller read before any caller wrote
FlagsAtStart == <<FALSE, FALSE, FALSE, FALSE>>

\* C10: nothing orders the transactions of callers of one device: when
\* each reads the flags, changes one and writes the four back, every call
\* can succeed and the register then holds the whole word of the caller
\* that wrote last; of two callers that read the same flags and changed
\* different ones, the change of the one that did not write last is missing.
C10_LastWholeWordWriteWins ==
    /\ \A p \in Callers : proc[p].pc # "exited"
    /\ AllSetsReturned =>
          /\ \E p \in Callers : lastWrite.flags = proc[p].flags
          /\ ConfigWord = FlagWord(lastWrite.flags)
          /\ \A p, q \in Callers : \A j, k \in 1 .. 4 :
                (/\ p # q
                 /\ j # k
                 /\ proc[p].flags = Toggle(FlagsAtStart, j)
                 /\ proc[q].flags = Toggle(FlagsAtStart, k)
                 /\ lastWrite.flags \in {proc[p].flags, proc[q].flags})
                => ConfigWord # FlagWord(Toggle(Toggle(FlagsAtStart, j), k))

C10_Witness ==
    /\ AllSetsReturned
    /\ proc[1].flags = <<TRUE, FALSE, FALSE, FALSE>>
    /\ proc[2].flags = <<FALSE, FALSE, FALSE, TRUE>>
    /\ ConfigWord = 8

====
